---- MODULE Spec2Model ----
(***************************************************************************)
(* Model of import_export/resources.py: Resource.import_data, the per-row  *)
(* reconciliation it performs, and the transactional envelope around it.   *)
(*                                                                         *)
(* The store, the instance loader, Field/Widget and Result/RowResult are   *)
(* collaborators of resources.py; they are modelled at the interface       *)
(* resources.py uses.  The resource of the model has three fields in       *)
(* column order: id (the identification field), name (a scalar) and tags   *)
(* (a many-to-many relation).                                              *)
(*                                                                         *)
(* Further specifications: SpecTwice (import_data called twice on one      *)
(* dataset), SpecClass (the metaclasses that build the fields mapping of   *)
(* a model resource) and SpecExport (Resource.export).                     *)
(***************************************************************************)
EXTENDS Integers, Sequences, FiniteSets, TLC

\* Number of rows of the dataset (at most).
MaxRows == 2

\* ------------------------------------------------------------------------
\* Values

\* A column that is missing from the row.
Absent == "absent"
\* The value of the name attribute of a freshly allocated object.
DefaultName == ""
\* Cells of the id column: 0 is the empty cell (cleaned to None).
IdCells == {0, 1}
NameCells == {Absent, "a"}
\* Cells of the tags column: <<>> when the column is missing, else <<members>>.
TagCells == {<<>>, <<{2}>>}

\* The calls of one row's processing that can raise.
Steps == {"resolve", "snapshot", "for_delete", "delete", "import_obj",
          "skip_row", "before_save", "save", "after_save", "save_m2m", "diff"}
NoFault == "none"

\* A dataset row: its cells, what the for_delete predicate answers for it,
\* and the call (if any) that raises while the row is processed.
\* The rows that raise carry a name cell and no tags column.
Rows == {r \in [id : IdCells, name : NameCells, tags : TagCells,
                del : BOOLEAN, fault : Steps \cup {NoFault}] :
            r.fault # NoFault => r.tags = <<>> /\ r.name = "a"}

\* The store before the batch: one object, pk 1.
InitStore == (1 :> [name |-> DefaultName, tags |-> {1}])

\* RowResult.IMPORT_TYPE_*; a RowResult starts with import_type None.
IMPORT_TYPE_NEW == "new"
IMPORT_TYPE_UPDATE == "update"
IMPORT_TYPE_DELETE == "delete"
IMPORT_TYPE_SKIP == "skip"
TypeNone == "None"

\* The values use_transactions can take: None, the two booleans, and a truthy
\* value that is not the object True (such as 1).
UT_None == "None"
UT_True == "True"
UT_False == "False"
UT_Truthy == "1"
Truthy(v) == v \in {UT_True, UT_Truthy}

VARIABLES
    pc,               \* position in import_data
    exc,              \* the exception that left import_data, if any
    dry_run,          \* argument
    raise_errors,     \* argument
    use_transactions, \* local: the effective transaction usage
    real_dry_run,     \* local: the per-row dry flag
    skip_unchanged,   \* _meta.skip_unchanged
    report_skipped,   \* _meta.report_skipped
    store,            \* the store as this connection sees it
    committed,        \* the store's durable state
    managed,          \* depth of transaction management entered
    result,           \* the Result: base_errors, rows
    row,              \* loop variable: the row being (last) processed
    row_result,       \* loop local: the RowResult of that row
    instance,         \* loop local: that row's instance, as the row left it
    original,         \* loop local: the snapshot taken of that row's instance
    ops,              \* calls made while processing that row, in order
    calls,            \* transaction calls, hooks and rows of the batch, in order
    nrows,            \* rows processed so far
    nraised,          \* rows whose processing raised so far
    dropped,          \* RowResults that were not appended to result.rows
    resolving,        \* the argument and settings line 405-406 resolved from
    dataset,          \* the dataset, when it is given whole (else <<>>)
    previous,         \* <<what an earlier run on the same dataset left>>
    attrs,            \* the Field attributes of the class body, as written
    opts,             \* _meta: model, fields, exclude, column_order
    fields,           \* the resource's fields mapping, in its order
    dehydrate,        \* the field names that have a dehydrate_<name> method
    queryset,         \* argument of export: <<>> (None) or <<primary keys>>
    exported          \* the Dataset that export builds

\* The state of import_data.
import_vars ==
        <<exc, dry_run, raise_errors, use_transactions, real_dry_run,
          skip_unchanged, report_skipped, committed, managed, result,
          row, row_result, instance, original, ops, calls, nrows, nraised,
          dropped, resolving, dataset, previous>>
\* The resource class, and the state of export.
class_vars == <<attrs, opts, fields, dehydrate, queryset, exported>>

vars == <<pc, store, import_vars, class_vars>>

\* ------------------------------------------------------------------------
\* The resource's fields and the collaborators' interface

\* The fields mapping of the resource that import_data is run on: the
\* fields of its model, each under its own name.
ResourceFields ==
    <<[name |-> "id", column_name |-> "id", origin |-> "model"],
      [name |-> "name", column_name |-> "name", origin |-> "model"],
      [name |-> "tags", column_name |-> "tags", origin |-> "model"]>>

\* self.fields.keys()
FieldKeys == [i \in 1..Len(fields) |-> fields[i].name]

\* get_column_order(): _meta.column_order unless it is None or empty.
get_column_order ==
    IF opts.column_order # <<>> THEN opts.column_order ELSE FieldKeys

\* get_fields(): the fields in column order, each stood for by its key.
get_fields == get_column_order

\* isinstance(field.widget, widgets.ManyToManyWidget)
IsManyToMany(field) == field = "tags"

\* field.column_name in data
ColumnPresent(field, data) ==
    CASE field = "id" -> TRUE
      [] field = "name" -> data.name # Absent
      [] field = "tags" -> data.tags # <<>>

SetMax(S) == CHOOSE m \in S : \A x \in S : x <= m

\* The members of the relation of the object with primary key pk.
Related(st, pk) == IF pk \in DOMAIN st THEN st[pk].tags ELSE {}

\* instance.save(): insert (allocating a primary key when the instance has
\* none) or update; the relation is not touched.  <<store, instance>>.
ModelSave(st, obj) ==
    LET pk == IF obj.pk = 0 THEN SetMax(DOMAIN st \cup IdCells) + 1 ELSE obj.pk
        saved == [obj EXCEPT !.pk = pk]
    IN IF pk \in DOMAIN st
       THEN <<[st EXCEPT ![pk].name = obj.name], saved>>
       ELSE <<st @@ (pk :> [name |-> obj.name, tags |-> {}]), saved>>

\* instance.delete()
ModelDelete(st, obj) == [k \in DOMAIN st \ {obj.pk} |-> st[k]]

\* instance_loader.get_instance(row): exact-match lookup of the cleaned
\* identification cell; 0 stands for "no object".
get_instance(st, data) == IF data.id \in DOMAIN st THEN data.id ELSE 0

\* self._meta.model()
init_instance == [pk |-> 0, name |-> DefaultName]

\* get_or_init_instance reporting every instance as new.
get_or_init_instance_AlwaysNew(st, data) ==
    LET pk == get_instance(st, data)
    IN IF pk # 0
       THEN <<[pk |-> pk, name |-> st[pk].name], TRUE>>
       ELSE <<init_instance, TRUE>>

\* get_or_init_instance: <<instance, new>>
get_or_init_instance(st, data) ==
    LET pk == get_instance(st, data)
    IN IF pk # 0
       THEN <<[pk |-> pk, name |-> st[pk].name], FALSE>>
       ELSE <<init_instance, TRUE>>

\* import_field without the test that the column is in the row: the marker
\* of the missing cell is assigned.
import_field_IgnoresMissingColumn(field, obj, data) ==
    CASE field = "id" -> [obj EXCEPT !.pk = data.id]
      [] field = "name" -> [obj EXCEPT !.name = data.name]
      [] OTHER -> obj

\* import_field on a field that is not a relation: field.save(obj, data)
\* assigns the cleaned cell, only when the column is in the row.
import_field(field, obj, data) ==
    IF ~ColumnPresent(field, data) THEN obj
    ELSE CASE field = "id" -> [obj EXCEPT !.pk = data.id]
           [] field = "name" -> [obj EXCEPT !.name = data.name]
           [] OTHER -> obj

RECURSIVE ImportFields(_, _, _)
ImportFields(fs, obj, data) ==
    IF fs = <<>> THEN obj
    ELSE ImportFields(Tail(fs),
                      IF IsManyToMany(Head(fs)) THEN obj
                      ELSE import_field(Head(fs), obj, data),
                      data)

\* import_obj: every field that is not many-to-many, in column order.
import_obj(obj, data) == ImportFields(get_fields, obj, data)

\* import_field on a many-to-many field: assigning the attribute writes the
\* relation of the (saved) object in the store.
import_m2m_field(field, st, obj, data) ==
    IF ColumnPresent(field, data) /\ obj.pk \in DOMAIN st
    THEN [st EXCEPT ![obj.pk].tags = data.tags[1]]
    ELSE st

\* save_m2m without its dry_run test.
save_m2m_IgnoresDryRun(st, obj, data, dry) ==
    import_m2m_field("tags", st, obj, data)

\* save_m2m: the many-to-many fields, unless dry_run.
save_m2m(st, obj, data, dry) ==
    IF dry THEN st ELSE import_m2m_field("tags", st, obj, data)

\* field.get_value(obj); a relation is read from the store.
get_value(field, obj, st) ==
    CASE field = "id" -> obj.pk
      [] field = "name" -> obj.name
      [] field = "tags" -> Related(st, obj.pk)

\* skip_row without the test of _meta.skip_unchanged.
skip_row_IgnoresOption(inst, orig, st, skip) ==
    \A i \in 1..Len(get_fields) :
        get_value(get_fields[i], inst, st)
          = get_value(get_fields[i], orig, st)

\* skip_row as the default of a resource that never skips.
skip_row_NeverSkips(inst, orig, st, skip) == FALSE

\* skip_row(instance, original)
skip_row(inst, orig, st, skip) ==
    IF ~skip THEN FALSE
    ELSE \A i \in 1..Len(get_fields) :
            get_value(get_fields[i], inst, st)
              = get_value(get_fields[i], orig, st)

\* What a dehydrate_<field> method of the resource returns for obj: a value
\* of the kind of the field that field.export(obj) never returns.
Dehydrated(field, obj, st) ==
    CASE field = "id" -> obj.pk + 10
      [] field = "name" -> "custom"
      [] field = "tags" -> {0}

\* export_field(field, obj): the dehydrate_<field> method of the resource
\* when there is one, else field.export(obj).
export_field(field, obj, st) ==
    IF field \in dehydrate THEN Dehydrated(field, obj, st)
    ELSE get_value(field, obj, st)

\* get_field_diff: the two texts handed to the diff engine; a missing object
\* (None) gives the empty text, here <<>>.
NoObject == [pk |-> -1, name |-> ""]
get_field_diff(field, orig, current, st) ==
    [original |-> IF orig = NoObject THEN <<>>
                  ELSE <<export_field(field, orig, st)>>,
     current |-> IF current = NoObject THEN <<>>
                 ELSE <<export_field(field, current, st)>>]

\* get_diff: one entry per field, in column order.
get_diff(orig, current, st) ==
    [i \in 1..Len(get_fields) |->
        get_field_diff(get_fields[i], orig, current, st)]

\* ------------------------------------------------------------------------
\* One iteration of the loop of import_data, up to the except clause

\* save_instance calling both hooks before instance.save().
save_instance_SavesLast(t, data, dry) ==
    LET t1 == [t EXCEPT !.ops = @ \o <<"before_save", "after_save">>]
        sv == ModelSave(t1.store, t1.instance)
    IN IF data.fault \in {"before_save", "after_save"}
       THEN [t1 EXCEPT !.raised = TRUE]
       ELSE IF dry THEN t1
       ELSE IF data.fault = "save"
       THEN [t1 EXCEPT !.ops = @ \o <<"save">>, !.raised = TRUE]
       ELSE [t1 EXCEPT !.store = sv[1], !.instance = sv[2],
                       !.ops = @ \o <<"save">>]

\* before_save_instance, instance.save() unless dry_run, after_save_instance.
\* The running record t carries the store, the instance and the calls made.
save_instance(t, data, dry) ==
    LET t1 == [t EXCEPT !.ops = @ \o <<"before_save">>]
    IN IF data.fault = "before_save" THEN [t1 EXCEPT !.raised = TRUE]
       ELSE LET sv == ModelSave(t1.store, t1.instance)
                t2 == IF dry THEN t1
                      ELSE [t1 EXCEPT !.ops = @ \o <<"save">>]
            IN IF ~dry /\ data.fault = "save" THEN [t2 EXCEPT !.raised = TRUE]
               ELSE LET t3 == IF dry THEN t2
                              ELSE [t2 EXCEPT !.store = sv[1],
                                              !.instance = sv[2]]
                        t4 == [t3 EXCEPT !.ops = @ \o <<"after_save">>]
                    IN IF data.fault = "after_save"
                       THEN [t4 EXCEPT !.raised = TRUE]
                       ELSE t4

\* delete_instance calling instance.delete() whatever dry_run is.
delete_instance_IgnoresDryRun(t, data, dry) ==
    LET t1 == [t EXCEPT !.ops = @ \o <<"before_delete", "delete">>]
    IN IF data.fault = "delete" THEN [t1 EXCEPT !.raised = TRUE]
       ELSE [t1 EXCEPT !.store = ModelDelete(@, t.instance),
                       !.ops = @ \o <<"after_delete">>]

\* before_delete_instance, instance.delete() unless dry_run,
\* after_delete_instance.
delete_instance(t, data, dry) ==
    LET t1 == [t EXCEPT !.ops = @ \o <<"before_delete">>]
        t2 == IF dry THEN t1 ELSE [t1 EXCEPT !.ops = @ \o <<"delete">>]
    IN IF ~dry /\ data.fault = "delete" THEN [t2 EXCEPT !.raised = TRUE]
       ELSE [t2 EXCEPT !.store = IF dry THEN @ ELSE ModelDelete(@, t.instance),
                       !.ops = @ \o <<"after_delete">>]

\* row_result.diff = self.get_diff(original, current, real_dry_run)
SetDiff(t, data, orig, current) ==
    LET t1 == [t EXCEPT !.ops = @ \o <<"diff">>]
    IN IF t.raised THEN t
       ELSE IF data.fault = "diff" THEN [t1 EXCEPT !.raised = TRUE]
       ELSE [t1 EXCEPT !.diff = get_diff(orig, current, t.store)]

\* The else branch of the deletion check: import_obj, skip_row, then either
\* SKIP or save_instance, save_m2m and the object info; then the diff.
ImportBranch(t, data, dry, skip) ==
    LET orig == t.instance
        t1 == [t EXCEPT !.ops = @ \o <<"import_obj">>]
    IN IF data.fault = "import_obj" THEN [t1 EXCEPT !.raised = TRUE]
       ELSE
       LET t2 == [t1 EXCEPT !.instance = import_obj(@, data),
                            !.ops = @ \o <<"skip_row">>]
       IN IF data.fault = "skip_row" THEN [t2 EXCEPT !.raised = TRUE]
          ELSE IF skip_row(t2.instance, orig, t2.store, skip)
          THEN SetDiff([t2 EXCEPT !.import_type = IMPORT_TYPE_SKIP],
                       data, orig, t2.instance)
          ELSE
          LET t3 == save_instance(t2, data, dry)
              t4 == IF dry THEN t3 ELSE [t3 EXCEPT !.ops = @ \o <<"save_m2m">>]
          IN IF t3.raised THEN t3
             ELSE IF ~dry /\ data.fault = "save_m2m"
             THEN [t4 EXCEPT !.raised = TRUE]
             ELSE
             LET t5 == [t4 EXCEPT
                          !.store = save_m2m(@, t4.instance, data, dry),
                          !.object_id = t4.instance.pk]
             IN SetDiff(t5, data, orig, t5.instance)

\* The body of the try block for one row, started on store st.  The result
\* has the store after the row, the RowResult's fields, whether an exception
\* reached the except clause, and the calls made in order.
RowBody(st, data, dry, skip) ==
    LET gi == get_or_init_instance(st, data)
        t0 == [store |-> st, instance |-> init_instance, new |-> TRUE,
               original |-> NoObject, import_type |-> TypeNone, object_id |-> 0, diff |-> <<>>,
               raised |-> FALSE, ops |-> <<"resolve">>]
    IN IF data.fault = "resolve" THEN [t0 EXCEPT !.raised = TRUE]
       ELSE
       LET t1 == [t0 EXCEPT
                    !.instance = gi[1], !.new = gi[2],
                    !.import_type = IF gi[2] THEN IMPORT_TYPE_NEW
                                    ELSE IMPORT_TYPE_UPDATE,
                    !.ops = @ \o <<"snapshot">>]
       IN IF data.fault = "snapshot" THEN [t1 EXCEPT !.raised = TRUE]
          ELSE
          LET t2 == [t1 EXCEPT !.original = t1.instance,
                               !.ops = @ \o <<"for_delete">>]
          IN IF data.fault = "for_delete" THEN [t2 EXCEPT !.raised = TRUE]
             ELSE IF data.del
             THEN IF t2.new
                  THEN SetDiff([t2 EXCEPT !.import_type = IMPORT_TYPE_SKIP],
                               data, NoObject, NoObject)
                  ELSE SetDiff(
                         delete_instance(
                           [t2 EXCEPT !.import_type = IMPORT_TYPE_DELETE],
                           data, dry),
                         data, t2.instance, NoObject)
             ELSE ImportBranch(t2, data, dry, skip)

\* ------------------------------------------------------------------------
\* Result, and the ambient transaction

\* Result.has_errors(): a base error, or a recorded row that carries an error.
has_errors(res) ==
    res.base_errors > 0 \/ \E i \in 1..Len(res.rows) : res.rows[i].errors > 0

\* get_use_transactions() reading the process-wide default only.
get_use_transactions_DefaultOnly(meta, default) == default

\* get_use_transactions(): the Options setting, or the process-wide default.
get_use_transactions(meta, default) ==
    IF meta = UT_None THEN default ELSE meta

\* Lines 405-406: the explicit argument, unless it is None.
EffectiveUseTransactions(arg, meta, default) ==
    IF arg = UT_None THEN get_use_transactions(meta, default) ELSE arg

\* The guard of line 408, which enters transaction management.
EnterGuard(ut) == ut = UT_True

\* Lines 408-415 with the per-row dry flag left equal to dry_run.
PerRowDry_KeepsDryRun(ut, dry) == dry

\* Lines 408-415: real_dry_run, the dry flag handed to the hooks and to the
\* per-row operations.
PerRowDry(ut, dry) == IF EnterGuard(ut) THEN FALSE ELSE dry

\* The values _meta.use_transactions and USE_TRANSACTIONS are drawn from.
MetaValues == {UT_None, UT_True, UT_False, UT_Truthy}
DefaultValues == {UT_True, UT_False, UT_Truthy}

\* The guard of lines 425, 475 and 484, which leaves it.
ExitGuard(ut) == Truthy(ut)

\* transaction.rollback() / transaction.commit() followed by
\* transaction.leave_transaction_management().  Called outside transaction
\* management the first call either does nothing or is refused by the store
\* (refused = TRUE), depending on the store's version.
ExitCalls(kind, refused) == IF refused THEN <<kind>> ELSE <<kind, "leave">>
\* The exception that leaves import_data after the exit calls: the store's
\* refusal replaces the exception e that was being handled.
Propagated(e, refused) == IF refused THEN "transaction" ELSE e
CanRefuse(refused) == refused => managed = 0

Rollback(refused) ==
    /\ CanRefuse(refused)
    /\ store' = committed
    /\ committed' = committed
    /\ managed' = IF managed > 0 THEN managed - 1 ELSE 0

Commit(refused) ==
    /\ CanRefuse(refused)
    /\ store' = store
    /\ committed' = store
    /\ managed' = IF managed > 0 THEN managed - 1 ELSE 0

\* A write of the row reaches the durable state at once unless transaction
\* management is entered.
Durable(st) == IF managed > 0 THEN committed ELSE st

\* ------------------------------------------------------------------------
\* import_data

NoRow == [id |-> 0, name |-> Absent, tags |-> <<>>, del |-> FALSE,
          fault |-> NoFault]
NoRowResult == [import_type |-> TypeNone, errors |-> 0, new_record |-> TRUE,
                diff |-> <<>>, object_id |-> 0, line |-> 0]

\* A Dataset before its construction.
NoDataset == [headers |-> <<>>, rows |-> <<>>]
\* The Options that field selection and export read, at their defaults.
DefaultOpts == [model |-> "Book", fields |-> <<>>, exclude |-> <<>>,
                column_order |-> <<>>]

\* The resource import_data is run on; no export is under way.
ImportResource ==
    /\ attrs = <<>>
    /\ opts = DefaultOpts
    /\ fields = ResourceFields
    /\ dehydrate = {}
    /\ queryset = <<>>
    /\ exported = NoDataset

Init ==
    /\ ImportResource
    /\ pc = "start"
    /\ exc = "none"
    /\ dry_run \in BOOLEAN
    /\ raise_errors \in BOOLEAN
    /\ use_transactions \in {UT_None, UT_True, UT_False, UT_Truthy}
    /\ real_dry_run = FALSE
    /\ skip_unchanged \in BOOLEAN
    /\ report_skipped \in BOOLEAN
    /\ store = InitStore
    /\ committed = InitStore
    /\ managed = 0
    /\ result = [base_errors |-> 0, rows |-> <<>>]
    /\ row = NoRow
    /\ row_result = NoRowResult
    /\ instance = NoObject
    /\ original = NoObject
    /\ ops = <<>>
    /\ calls = <<>>
    /\ nrows = 0
    /\ nraised = 0
    /\ dropped = <<>>
    /\ resolving = <<>>
    /\ dataset = <<>>
    /\ previous = <<>>

\* Lines 403-415: resolve the transaction usage, enter transaction
\* management, set the per-row dry flag.
Begin ==
    /\ UNCHANGED class_vars
    /\ pc = "start"
    /\ \E meta \in MetaValues, default \in DefaultValues :
         /\ use_transactions' =
               EffectiveUseTransactions(use_transactions, meta, default)
         /\ resolving' = <<use_transactions, meta, default>>
    /\ real_dry_run' = PerRowDry(use_transactions', dry_run)
    /\ IF EnterGuard(use_transactions')
       THEN /\ managed' = managed + 1
            /\ calls' = calls \o <<"enter", "managed">>
       ELSE UNCHANGED <<managed, calls>>
    /\ pc' = "loader"
    /\ UNCHANGED <<exc, dry_run, raise_errors, skip_unchanged, report_skipped,
                   store, committed, result, row, row_result, instance,
                   original, ops, nrows, nraised, dropped, dataset, previous>>

\* Line 417: the instance loader is constructed.
MakeLoader ==
    /\ UNCHANGED class_vars
    /\ pc = "loader"
    /\ pc' = "before_import"
    /\ calls' = calls \o <<"loader">>
    /\ resolving' = <<>>
    /\ UNCHANGED <<exc, dry_run, raise_errors, use_transactions, real_dry_run,
                   skip_unchanged, report_skipped, store, committed, managed,
                   result, row, row_result, instance, original, ops, nrows,
                   nraised, dropped, dataset, previous>>

\* Line 417 raises: the exception leaves import_data.
MakeLoaderRaises ==
    /\ UNCHANGED class_vars
    /\ pc = "loader"
    /\ pc' = "raised"
    /\ exc' = "loader"
    /\ calls' = calls \o <<"loader">>
    /\ resolving' = <<>>
    /\ UNCHANGED <<dry_run, raise_errors, use_transactions, real_dry_run,
                   skip_unchanged, report_skipped, store, committed, managed,
                   result, row, row_result, instance, original, ops, nrows,
                   nraised, dropped, dataset, previous>>

\* Lines 419-420: before_import returns.
BeforeImport ==
    /\ UNCHANGED class_vars
    /\ pc = "before_import"
    /\ pc' = "rows"
    /\ calls' = calls \o <<"before_import">>
    /\ UNCHANGED <<exc, dry_run, raise_errors, use_transactions, real_dry_run,
                   skip_unchanged, report_skipped, store, committed, managed,
                   result, row, row_result, instance, original, ops, nrows,
                   nraised, dropped, resolving, dataset, previous>>

\* Line 422: traceback.format_exc is handed the traceback object where it
\* takes its limit, an integer.  An interpreter that orders any two objects
\* (Python 2) formats the traceback; one that refuses to compare a traceback
\* with an integer (Python 3) raises TypeError from inside the except clause.
\* The file is written for both (django.utils.six), so both are outcomes.
FormatExcOutcomes == {"formatted", "TypeError"}

\* Lines 421-428: before_import raises.  When line 422 raises in its turn,
\* the TypeError leaves import_data from the except clause: nothing is
\* appended to base_errors (line 423 is not reached), nothing is rolled back
\* and transaction management is not left (lines 425-427 are not reached).
BeforeImportRaises ==
    /\ UNCHANGED class_vars
    /\ pc = "before_import"
    /\ \E tb_info \in FormatExcOutcomes :
         IF tb_info = "TypeError"
         THEN /\ pc' = "raised"
              /\ exc' = "TypeError"
              /\ calls' = calls \o <<"before_import">>
              /\ UNCHANGED <<result, store, committed, managed>>
         ELSE /\ result' = [result EXCEPT !.base_errors = @ + 1]
              /\ IF raise_errors
                 THEN /\ pc' = "raised"
                      /\ IF ExitGuard(use_transactions)
                         THEN \E refused \in BOOLEAN :
                                /\ Rollback(refused)
                                /\ exc' = Propagated("before_import", refused)
                                /\ calls' = calls \o <<"before_import">>
                                                  \o ExitCalls("rollback", refused)
                         ELSE /\ exc' = "before_import"
                              /\ calls' = calls \o <<"before_import">>
                              /\ UNCHANGED <<store, committed, managed>>
                 ELSE /\ pc' = "rows"
                      /\ calls' = calls \o <<"before_import">>
                      /\ UNCHANGED <<exc, store, committed, managed>>
    /\ UNCHANGED <<dry_run, raise_errors, use_transactions, real_dry_run,
                   skip_unchanged, report_skipped, row, row_result, instance,
                   original, ops, nrows, nraised, dropped, resolving, dataset,
                   previous>>

\* The RowResult of a row after the try block and the except clause.
MakeRowResult(t, n) ==
    [import_type |-> t.import_type,
     errors |-> IF t.raised THEN 1 ELSE 0,
     new_record |-> t.new,
     diff |-> t.diff,
     object_id |-> t.object_id,
     line |-> n]

\* What result.rows keeps of a RowResult in the model: its outcome, its errors
\* and the row it belongs to.  The diff and the object info of a row are in
\* row_result while the row is the current one.
Entry(rr) == [import_type |-> rr.import_type, errors |-> rr.errors,
              line |-> rr.line]

\* Lines 480-481: is the RowResult appended to result.rows?
Recorded(rr, report) == rr.import_type # IMPORT_TYPE_SKIP \/ report

\* Lines 430-482: one iteration of the loop, on the row data.
RowStep(data) ==
    /\ UNCHANGED class_vars
    /\ pc = "rows"
    /\ \E t \in {RowBody(store, data, real_dry_run, skip_unchanged)} :
         LET rr == MakeRowResult(t, nrows + 1)
         IN /\ row' = data
            /\ row_result' = rr
            /\ instance' = t.instance
            /\ original' = t.original
            /\ ops' = t.ops
            /\ nrows' = nrows + 1
            /\ nraised' = IF t.raised THEN nraised + 1 ELSE nraised
            /\ IF t.raised /\ raise_errors
               THEN /\ pc' = "raised"
                    /\ UNCHANGED <<result, dropped>>
                    /\ IF ExitGuard(use_transactions)
                       THEN \E refused \in BOOLEAN :
                              /\ CanRefuse(refused)
                              /\ store' = Durable(t.store)
                              /\ committed' = Durable(t.store)
                              /\ managed' = IF managed > 0 THEN managed - 1
                                            ELSE 0
                              /\ exc' = Propagated("row", refused)
                              /\ calls' = calls \o <<"row">>
                                            \o ExitCalls("rollback", refused)
                       ELSE /\ store' = t.store
                            /\ committed' = Durable(t.store)
                            /\ exc' = "row"
                            /\ calls' = calls \o <<"row">>
                            /\ UNCHANGED managed
               ELSE /\ pc' = "rows"
                    /\ UNCHANGED exc
                    /\ store' = t.store
                    /\ committed' = Durable(t.store)
                    /\ calls' = calls \o <<"row">>
                    /\ UNCHANGED managed
                    /\ IF Recorded(rr, report_skipped)
                       THEN /\ result' = [result EXCEPT
                                            !.rows = Append(@, Entry(rr))]
                            /\ UNCHANGED dropped
                       ELSE /\ dropped' = Append(dropped, Entry(rr))
                            /\ UNCHANGED result
    /\ UNCHANGED <<dry_run, raise_errors, use_transactions, real_dry_run,
                   skip_unchanged, report_skipped, resolving, dataset,
                   previous>>

\* Line 430: the next row of a dataset whose rows are drawn as they are read.
ProcessRow ==
    /\ nrows < MaxRows
    /\ dataset = <<>>
    /\ \E data \in Rows : RowStep(data)

\* Lines 484-491: the dataset is exhausted; commit or roll back, return.
Finish ==
    /\ UNCHANGED class_vars
    /\ pc = "rows"
    /\ IF ExitGuard(use_transactions)
       THEN \E refused \in BOOLEAN :
              /\ pc' = IF refused THEN "raised" ELSE "returned"
              /\ exc' = Propagated("none", refused)
              /\ IF dry_run \/ has_errors(result)
                 THEN /\ Rollback(refused)
                      /\ calls' = calls \o ExitCalls("rollback", refused)
                 ELSE /\ Commit(refused)
                      /\ calls' = calls \o ExitCalls("commit", refused)
       ELSE /\ pc' = "returned"
            /\ UNCHANGED <<exc, store, committed, managed, calls>>
    /\ row' = NoRow
    /\ row_result' = NoRowResult
    /\ instance' = NoObject
    /\ original' = NoObject
    /\ ops' = <<>>
    /\ UNCHANGED <<dry_run, raise_errors, use_transactions, real_dry_run,
                   skip_unchanged, report_skipped, result, nrows, nraised,
                   dropped, resolving, dataset, previous>>

Next ==
    \/ Begin
    \/ MakeLoader
    \/ MakeLoaderRaises
    \/ BeforeImport
    \/ BeforeImportRaises
    \/ ProcessRow
    \/ Finish

Spec == Init /\ [][Next]_vars

\* ------------------------------------------------------------------------
\* import_data called twice on one dataset

\* The identification cells of a dataset that is given whole.
DatasetIds == IdCells \cup {2}
\* The calls that can raise for a row of such a dataset: one before the
\* row writes anything, the two writes, one between the writes of a saved
\* row, and the last call of every row.
DatasetFaults == {"import_obj", "delete", "save", "after_save", "diff"}
\* Its rows; a row makes the call it names raise when its processing makes
\* that call.  The other cells of a row marked for deletion are not read
\* (lines 440-455) and are left out.
DatasetRows ==
    {r \in [id : DatasetIds, name : NameCells, tags : TagCells,
            del : BOOLEAN, fault : {NoFault} \cup DatasetFaults] :
        r.del => r.name = Absent /\ r.tags = <<>>}
\* The datasets: at most one of their rows names a call that raises.
Datasets ==
    UNION {{d \in [1..n -> DatasetRows] :
              \A i, j \in 1..n :
                 d[i].fault # NoFault /\ d[j].fault # NoFault => i = j} :
           n \in 1..MaxRows}

\* A resource with skip_unchanged, a call that is not a dry run.
InitTwice ==
    /\ ImportResource
    /\ pc = "start"
    /\ exc = "none"
    /\ dry_run = FALSE
    /\ raise_errors = FALSE
    /\ use_transactions \in {UT_None, UT_True, UT_False, UT_Truthy}
    /\ real_dry_run = FALSE
    /\ skip_unchanged = TRUE
    /\ report_skipped \in BOOLEAN
    /\ store = InitStore
    /\ committed = InitStore
    /\ managed = 0
    /\ result = [base_errors |-> 0, rows |-> <<>>]
    /\ row = NoRow
    /\ row_result = NoRowResult
    /\ instance = NoObject
    /\ original = NoObject
    /\ ops = <<>>
    /\ calls = <<>>
    /\ nrows = 0
    /\ nraised = 0
    /\ dropped = <<>>
    /\ resolving = <<>>
    /\ dataset \in Datasets
    /\ previous = <<>>

\* Line 430: the next row of the dataset.
ReadRow ==
    /\ nrows < Len(dataset)
    /\ RowStep(dataset[nrows + 1])

\* Lines 484-491, reached when line 430 has read every row.
FinishDataset ==
    /\ dataset # <<>>
    /\ nrows = Len(dataset)
    /\ Finish

\* The dataset with no call left that raises.
Mended(d) == [i \in 1..Len(d) |-> [d[i] EXCEPT !.fault = NoFault]]

\* import_data has returned and is called again, with a new Result, on the
\* same dataset and the store as the first call left it.  A call that
\* raised for a row raises again, or the failure has gone.
Rerun ==
    /\ UNCHANGED class_vars
    /\ pc = "returned"
    /\ dataset # <<>>
    /\ previous = <<>>
    /\ previous' = <<[store |-> store, result |-> result,
                      nraised |-> nraised, calls |-> calls]>>
    /\ pc' = "start"
    /\ result' = [base_errors |-> 0, rows |-> <<>>]
    /\ calls' = <<>>
    /\ nrows' = 0
    /\ nraised' = 0
    /\ dropped' = <<>>
    /\ real_dry_run' = FALSE
    /\ dataset' \in {dataset, Mended(dataset)}
    /\ UNCHANGED <<exc, dry_run, raise_errors, use_transactions,
                   skip_unchanged, report_skipped, store, committed, managed,
                   row, row_result, instance, original, ops, resolving>>

NextTwice ==
    \/ Begin
    \/ MakeLoader
    \/ MakeLoaderRaises
    \/ BeforeImport
    \/ BeforeImportRaises
    \/ ReadRow
    \/ FinishDataset
    \/ Rerun

SpecTwice == InitTwice /\ [][NextTwice]_vars

\* ------------------------------------------------------------------------
\* Construction of a model resource class

\* import_data is not running: its variables as a call finds them.
ImportIdle ==
    /\ exc = "none"
    /\ dry_run = FALSE
    /\ raise_errors = FALSE
    /\ use_transactions = UT_None
    /\ real_dry_run = FALSE
    /\ skip_unchanged = FALSE
    /\ report_skipped = TRUE
    /\ committed = store
    /\ managed = 0
    /\ result = [base_errors |-> 0, rows |-> <<>>]
    /\ row = NoRow
    /\ row_result = NoRowResult
    /\ instance = NoObject
    /\ original = NoObject
    /\ ops = <<>>
    /\ calls = <<>>
    /\ nrows = 0
    /\ nraised = 0
    /\ dropped = <<>>
    /\ resolving = <<>>
    /\ dataset = <<>>
    /\ previous = <<>>

\* opts.model: None, or a model class.  Book has the fields id, name and
\* tags (many to many, to Tag); BookWithOwner has besides them owner, a
\* foreign key to Owner.  Owner and Tag have the fields id and name.
NoModelClass == "None"
Models == {NoModelClass, "Book", "BookWithOwner"}
\* sorted(model_opts.fields + model_opts.many_to_many) of a model class.
ModelFieldNames(model) ==
    IF model = "Book" THEN <<"id", "name", "tags">>
    ELSE IF model = "BookWithOwner" THEN <<"id", "name", "owner", "tags">>
    ELSE IF model \in {"Owner", "Tag"} THEN <<"id", "name">>
    ELSE <<>>
\* Field names that follow a relationship: through the foreign key, through
\* a field that is no relation, through the many-to-many relation, and
\* through the foreign key to the reverse relation of Owner.
RelName == "owner__name"
RelNames == {RelName, "name__x", "tags__name", "owner__bookwithowner"}
\* The names a class body may give to Field attributes, and the names the
\* fields and exclude options may list.
DeclaredNames == {"name", "full", RelName}
WhitelistNames == {"id", "name", "full"} \cup RelNames
BlacklistNames == {"id", "name", RelName}

\* An option that lists names: <<>> when it is None, else <<the names>>.
Unset == <<>>
OptionSets(S) == {Unset} \cup {<<T>> : T \in SUBSET S}

\* _field_name_follows_rel(name): does the name contain '__'?
field_name_follows_rel(name) == name \in RelNames

\* field_name.split('__')
Split(name) ==
    CASE name = "owner__name" -> <<"owner", "name">>
      [] name = "name__x" -> <<"name", "x">>
      [] name = "tags__name" -> <<"tags", "name">>
      [] name = "owner__bookwithowner" -> <<"owner", "bookwithowner">>
      [] OTHER -> <<name>>

\* The reverse relations model._meta.get_field_by_name knows by the name of
\* the model that points to this one: <<the field that points here>>.
ReverseRelation(model, name) ==
    IF model = "Owner" /\ name = "bookwithowner"
    THEN <<[model |-> "BookWithOwner", name |-> "owner"]>>
    ELSE IF model = "Tag" /\ name = "book"
    THEN <<[model |-> "Book", name |-> "tags"]>>
    ELSE IF model = "Tag" /\ name = "bookwithowner"
    THEN <<[model |-> "BookWithOwner", name |-> "tags"]>>
    ELSE <<>>

\* field.rel.to of a field of the model: <<the model the relation leads
\* to>>, or <<>> for a field whose rel is None.
RelTo(model, name) ==
    IF model = "BookWithOwner" /\ name = "owner" THEN <<"Owner">>
    ELSE IF model \in {"Book", "BookWithOwner"} /\ name = "tags"
    THEN <<"Tag">>
    ELSE <<>>

\* Lines 64-70: what model._meta.get_field_by_name(field_name)[0] is: a
\* field of the model, the RelatedObject of a reverse relation, or nothing
\* (FieldDoesNotExist is raised).
get_field_by_name(name, model) ==
    IF \E i \in 1..Len(ModelFieldNames(model)) :
          ModelFieldNames(model)[i] = name
    THEN "Field"
    ELSE IF ReverseRelation(model, name) # <<>> THEN "RelatedObject"
    ELSE "FieldDoesNotExist"

\* What _get_relationship_target_field gives: a field, or an exception.
TargetField(model, name) == [exc |-> "none", model |-> model, name |-> name]
TargetRaises(e) == [exc |-> e, model |-> NoModelClass, name |-> ""]

\* Lines 73-86, on the split name.  A part that no lookup finds raises
\* FieldDoesNotExist (lines 84, 85).  A part before the last that is found
\* but has no relation to follow raises AttributeError at line 84: the rel
\* of a plain field is None, and a RelatedObject has no rel.  A last part
\* that is a reverse relation gives the field that points here (line 86).
RECURSIVE get_relationship_target_field(_, _)
get_relationship_target_field(rels, model) ==
    LET found == get_field_by_name(Head(rels), model)
    IN IF found = "FieldDoesNotExist" THEN TargetRaises("FieldDoesNotExist")
       ELSE IF Len(rels) = 1
       THEN IF found = "RelatedObject"
            THEN LET f == ReverseRelation(model, Head(rels))[1]
                 IN TargetField(f.model, f.name)
            ELSE TargetField(model, Head(rels))
       ELSE IF found = "Field" /\ RelTo(model, Head(rels)) # <<>>
       THEN get_relationship_target_field(Tail(rels),
                                          RelTo(model, Head(rels))[1])
       ELSE TargetRaises("AttributeError")

\* The orders a set of keys can be iterated in.
Orderings(S) ==
    {f \in [1..Cardinality(S) -> S] :
        \A i, j \in 1..Cardinality(S) : f[i] = f[j] => i = j}

SetMin(S) == CHOOSE m \in S : \A x \in S : m <= x

\* The class bodies that declare some of the names, each once, in an order.
Bodies(S) == UNION {Orderings(T) : T \in SUBSET S}
\* The keys of the attrs dictionary of a class body.
Names(body) == {body[i] : i \in 1..Len(body)}

Keys(fs) == {fs[i].name : i \in 1..Len(fs)}

\* SortedDict.update with one item: the value of a key that is present is
\* replaced where it stands, a new key is appended.
UpdateItem(fs, f) ==
    IF f.name \in Keys(fs)
    THEN [i \in 1..Len(fs) |-> IF fs[i].name = f.name THEN f ELSE fs[i]]
    ELSE Append(fs, f)

RECURSIVE Update(_, _)
Update(fs, items) ==
    IF items = <<>> THEN fs
    ELSE Update(UpdateItem(fs, Head(items)), Tail(items))

\* The column_name a Field of the class body was constructed with ("": none).
DeclaredColumn(name) ==
    IF name = "full" THEN "Full" ELSE IF name = "name" THEN "Name" ELSE ""

\* Lines 153-158: a Field attribute of the class body, its column_name
\* defaulted to its attribute name.
DeclaredField(name) ==
    [name |-> name,
     column_name |-> IF DeclaredColumn(name) = "" THEN name
                     ELSE DeclaredColumn(name),
     origin |-> "declared"]

\* parse_field(field, field_name): the Field made for a field of the model.
parse_field(name, origin) ==
    [name |-> name, column_name |-> name, origin |-> origin]

\* The condition of lines 604-622 without its last test.
Introspected_IgnoresDeclared(name, o, present) ==
    /\ o.fields = Unset \/ name \in o.fields[1]
    /\ o.exclude = Unset \/ name \notin o.exclude[1]

\* Lines 604-622: is the field of the model taken into the mapping?
Introspected(name, o, present) ==
    /\ o.fields = Unset \/ name \in o.fields[1]
    /\ o.exclude = Unset \/ name \notin o.exclude[1]
    /\ name \notin present

\* Lines 649-656: is the name of the fields option taken as a field that
\* spans relationships?
SpansRelationship(name, present) ==
    name \notin present /\ field_name_follows_rel(name)

InitClass ==
    /\ pc = "class"
    /\ store = InitStore
    /\ ImportIdle
    /\ attrs \in Bodies(DeclaredNames)
    /\ opts \in [model : Models, fields : OptionSets(WhitelistNames),
                  exclude : OptionSets(BlacklistNames),
                  column_order : {<<>>}]
    /\ fields = <<>>
    /\ dehydrate = {}
    /\ queryset = <<>>
    /\ exported = NoDataset

\* Lines 151-160: the mapping of the declared fields, in the order the
\* attrs dictionary yields their names.
DeclaredFields(order) == [i \in 1..Len(order) |-> DeclaredField(order[i])]

\* Lines 592-623: the mapping updated with the fields of the model that
\* are taken, in the order of the model.
IntrospectedFields(fs, o) ==
    LET Taken(name) == Introspected(name, o, Keys(fs))
        names == SelectSeq(ModelFieldNames(o.model), Taken)
    IN Update(fs, [i \in 1..Len(names) |-> parse_field(names[i], "model")])

\* DeclarativeMetaclass.__new__ (lines 145-170): the Field attributes of the
\* class body become the fields mapping, in the order attrs.copy().items()
\* yields them: the order of the class body where the class namespace keeps
\* it (Python 3.6 and later), the order of a hash table elsewhere.
DeclareFields ==
    /\ pc = "class"
    /\ \E order \in Orderings(Names(attrs)) :
         fields' = DeclaredFields(order)
    /\ pc' = "model"
    /\ UNCHANGED <<store, import_vars, attrs, opts, dehydrate, queryset,
                   exported>>

\* Line 587 when the Options name no model.
NoModel ==
    /\ pc = "model"
    /\ opts.model = NoModelClass
    /\ pc' = "class_done"
    /\ UNCHANGED <<store, import_vars, class_vars>>

\* Lines 587-623: the mapping is updated with the fields of the model.
IntrospectModel ==
    /\ pc = "model"
    /\ opts.model # NoModelClass
    /\ fields' = IntrospectedFields(fields, opts)
    /\ pc' = "relations"
    /\ UNCHANGED <<store, import_vars, attrs, opts, dehydrate, queryset,
                   exported>>

\* Lines 629-657: the mapping is updated with the names of the fields
\* option that span relationships, in the order of the option, each
\* resolved on the model (lines 639-642).  The first name that does not
\* resolve ends the class statement with its exception, before the update:
\* no class is made.
SpanRelationships ==
    /\ pc = "relations"
    /\ LET names == IF opts.fields = Unset THEN {}
                    ELSE {name \in opts.fields[1] :
                            SpansRelationship(name, Keys(fields))}
           Target(name) ==
               get_relationship_target_field(Split(name), opts.model)
       IN \E order \in Orderings(names) :
            LET failing == {i \in 1..Len(order) :
                              Target(order[i]).exc # "none"}
            IN IF failing = {}
               THEN /\ fields' = Update(fields,
                                        [i \in 1..Len(order) |->
                                            parse_field(order[i], "relation")])
                    /\ pc' = "class_done"
                    /\ UNCHANGED exc
               ELSE /\ pc' = "class_raised"
                    /\ exc' = Target(order[SetMin(failing)]).exc
                    /\ UNCHANGED fields
    /\ UNCHANGED <<store, dry_run, raise_errors, use_transactions,
                   real_dry_run, skip_unchanged, report_skipped, committed,
                   managed, result, row, row_result, instance, original, ops,
                   calls, nrows, nraised, dropped, resolving, dataset,
                   previous, attrs, opts, dehydrate, queryset, exported>>

NextClass ==
    \/ DeclareFields
    \/ NoModel
    \/ IntrospectModel
    \/ SpanRelationships

SpecClass == InitClass /\ [][NextClass]_vars

\* ------------------------------------------------------------------------
\* export

\* Number of objects of the store that is exported, and of objects of a
\* queryset (at most).
MaxObjects == 2

\* The store that is exported: objects 1..MaxObjects.
ExportStore ==
    [k \in 1..MaxObjects |->
        [name |-> IF k = 1 THEN "a" ELSE DefaultName, tags |-> {k}]]

\* The object of primary key pk as the store yields it.
LoadObject(st, pk) == [pk |-> pk, name |-> st[pk].name]

\* get_queryset(): every object of the store, by primary key.
get_queryset(st) ==
    CHOOSE f \in Orderings(DOMAIN st) :
        \A i, j \in 1..Len(f) : i < j => f[i] < f[j]

\* The queryset argument: None (<<>>), or objects of the store in some
\* order, an object possibly more than once, as a QuerySet or as a list.
IterableKinds == {"QuerySet", "list"}
Querysets ==
    {<<>>} \cup {<<kind, q>> : kind \in IterableKinds,
                               q \in UNION {[1..n -> 1..MaxObjects] :
                                              n \in 0..MaxObjects}}

\* The names the class body of the exported resource may declare.
ExportDeclaredNames == {"id", "name"}
\* The fields mappings the metaclasses make of a class body on the options:
\* the declared fields in an order of the attrs dictionary, then the fields
\* of the model.
ExportMappings(body, o) ==
    {IntrospectedFields(DeclaredFields(order), o) :
        order \in Orderings(Names(body))}
\* _meta.column_order: <<>> (None or empty), or some of the keys in an order.
ColumnOrders ==
    UNION {Orderings(S) :
             S \in SUBSET {ModelFieldNames("Book")[i] :
                             i \in 1..Len(ModelFieldNames("Book"))}}

\* self.fields[f]
FieldOf(name) == fields[CHOOSE i \in 1..Len(fields) : fields[i].name = name]

\* get_column_headers()
get_column_headers ==
    [i \in 1..Len(get_fields) |-> FieldOf(get_fields[i]).column_name]

\* export_instance(obj)
export_instance(obj, st) ==
    [i \in 1..Len(get_fields) |-> export_field(get_fields[i], obj, st)]

\* Lines 539-541, 545: the objects export iterates over.
Iterated == IF queryset = <<>> THEN get_queryset(store) ELSE queryset[2]
\* Line 545: has the object that is iterated an iterator method?
HasIterator == IF queryset = <<>> THEN TRUE ELSE queryset[1] = "QuerySet"

InitExport ==
    /\ pc = "export"
    /\ store = ExportStore
    /\ ImportIdle
    /\ attrs \in Bodies(ExportDeclaredNames)
    /\ opts \in [model : {"Book"}, fields : {Unset}, exclude : {Unset},
                  column_order : ColumnOrders]
    /\ fields \in ExportMappings(attrs, opts)
    /\ dehydrate \in SUBSET {"id", "name"}
    /\ queryset \in Querysets
    /\ exported = NoDataset

\* Lines 539-542: the Dataset is made with its headers.
ExportBegin ==
    /\ pc = "export"
    /\ exported' = [headers |-> get_column_headers, rows |-> <<>>]
    /\ pc' = "export_rows"
    /\ UNCHANGED <<store, import_vars, attrs, opts, fields, dehydrate,
                   queryset>>

\* Line 545: queryset.iterator() of an object that has no such method, a
\* list for one, raises AttributeError; the Dataset has its headers only.
ExportIteratorRaises ==
    /\ pc = "export_rows"
    /\ ~HasIterator
    /\ pc' = "export_raised"
    /\ exc' = "AttributeError"
    /\ UNCHANGED <<store, dry_run, raise_errors, use_transactions,
                   real_dry_run, skip_unchanged, report_skipped, committed,
                   managed, result, row, row_result, instance, original, ops,
                   calls, nrows, nraised, dropped, resolving, dataset,
                   previous, class_vars>>

\* Lines 545-546: the next object of the iteration is exported.
ExportObject ==
    /\ pc = "export_rows"
    /\ HasIterator
    /\ Len(exported.rows) < Len(Iterated)
    /\ LET obj == LoadObject(store, Iterated[Len(exported.rows) + 1])
       IN exported' = [exported EXCEPT
                         !.rows = Append(@, export_instance(obj, store))]
    /\ UNCHANGED <<pc, store, import_vars, attrs, opts, fields, dehydrate,
                   queryset>>

\* Line 547: the iteration is over.
ExportReturn ==
    /\ pc = "export_rows"
    /\ HasIterator
    /\ Len(exported.rows) = Len(Iterated)
    /\ pc' = "exported"
    /\ UNCHANGED <<store, import_vars, class_vars>>

NextExport ==
    \/ ExportBegin
    \/ ExportIteratorRaises
    \/ ExportObject
    \/ ExportReturn

SpecExport == InitExport /\ [][NextExport]_vars

\* ------------------------------------------------------------------------
\* Properties

\* The outcome ERROR of the specification; resources.py never assigns it.
IMPORT_TYPE_ERROR == "error"

Terminal == pc \in {"returned", "raised"}
Count(seq, x) == Cardinality({i \in 1..Len(seq) : seq[i] = x})
LastTwo(seq) == IF Len(seq) < 2 THEN seq ELSE SubSeq(seq, Len(seq) - 1, Len(seq))

\* A row has been processed and is the current one.
RowDone == row_result.line > 0
\* The current row was resolved and its snapshot taken.
Snapshotted == RowDone /\ original # NoObject
\* Field application leaves the current row's instance equal to its snapshot.
RowUnchanged == row.id = original.pk /\ row.name \in {Absent, original.name}
\* The unchanged-row check of the current row was made and returned.
SkipChecked ==
    /\ ~row.del
    /\ row.fault \notin {"for_delete", "import_obj", "skip_row"}
\* The outcome of a row in the specification's terms.
Outcome(e) == IF e.errors > 0 THEN IMPORT_TYPE_ERROR ELSE e.import_type

\* C1: with transactions in effect, transaction management is entered exactly
\* once and first, and on every path out of import_data it is exited exactly
\* once: one commit or one rollback, then one leave.
C1_TransactionExitedOnEveryPath ==
    (Terminal /\ EnterGuard(use_transactions)) =>
        /\ Count(calls, "enter") = 1
        /\ calls[1] = "enter"
        /\ Count(calls, "commit") + Count(calls, "rollback") = 1
        /\ Count(calls, "leave") = 1
        /\ LastTwo(calls) \in {<<"commit", "leave">>, <<"rollback", "leave">>}
        /\ managed = 0

\* C2: a batch with transactions that reaches its end commits if and only if
\* dry_run is false and nothing failed (no base error, no row raised, recorded
\* or not); otherwise it rolls back.
C2_CommitIffNoErrorAndNotDry ==
    (pc = "returned" /\ EnterGuard(use_transactions)) =>
        LET clean == ~dry_run /\ result.base_errors = 0 /\ nraised = 0
        IN /\ Count(calls, "commit") = (IF clean THEN 1 ELSE 0)
           /\ Count(calls, "rollback") = (IF clean THEN 0 ELSE 1)

\* C3: with transactions, once a row has raised, the durable store after
\* import_data equals the store before the batch.
C3_TransactionalAtomicity ==
    (Terminal /\ EnterGuard(use_transactions) /\ nraised > 0) =>
        committed = InitStore

\* C4: with dry_run the durable store never differs from the store before the
\* batch; without transactions nothing is written at all, and with them what
\* was written is gone when import_data ends.
C4_DryRunInvariance ==
    dry_run =>
        /\ committed = InitStore
        /\ (managed = 0 \/ Terminal) => store = InitStore

\* C4 witness: a dry run inside a transaction has ended after recording a row
\* as NEW.
C4_Witness ==
    /\ dry_run
    /\ pc = "returned"
    /\ EnterGuard(use_transactions)
    /\ \E i \in 1..Len(result.rows) :
         /\ result.rows[i].import_type = IMPORT_TYPE_NEW
         /\ result.rows[i].errors = 0

\* C5: without eager failure a row that raises gets exactly one Error and the
\* outcome ERROR, the loop goes on, and the batch has errors.
C5_PerRowFailureIsolation ==
    (RowDone /\ row_result.errors > 0 /\ ~raise_errors) =>
        /\ row_result.errors = 1
        /\ row_result.import_type = IMPORT_TYPE_ERROR
        /\ pc = "rows"
        /\ has_errors(result)

\* C6: with raise_errors a row that raises ends import_data by re-raising
\* that row's exception: it is the only raising row and the last one
\* processed, it is not recorded, and a transaction that was entered has
\* been rolled back and left, nothing of the batch remaining in the store.
C6_EagerFailure ==
    (raise_errors /\ nraised > 0) =>
        /\ pc = "raised"
        /\ exc = "row"
        /\ nraised = 1
        /\ row_result.line = nrows
        /\ row_result.errors = 1
        /\ Len(result.rows) + Len(dropped) = nrows - 1
        /\ EnterGuard(use_transactions) =>
             /\ managed = 0
             /\ LastTwo(calls) = <<"rollback", "leave">>
             /\ Count(calls, "commit") = 0
             /\ store = InitStore
             /\ committed = InitStore

\* C7: a batch that returns has errors if and only if the before-import hook
\* raised or some row raised, recorded or not.
C7_HasErrorsIffSomethingFailed ==
    pc = "returned" =>
        (has_errors(result) <=> (result.base_errors > 0 \/ nraised > 0))

\* C8: a batch that returns has recorded its rows in dataset order, each at
\* most once, and has left out exactly those whose outcome is SKIP while
\* report_skipped is false.
C8_RowsRecordedExceptSkipped ==
    pc = "returned" =>
        /\ \A i, j \in 1..Len(result.rows) :
             i < j => result.rows[i].line < result.rows[j].line
        /\ \A i \in 1..Len(result.rows) :
             /\ result.rows[i].line \in 1..nrows
             /\ ~(Outcome(result.rows[i]) = IMPORT_TYPE_SKIP /\ ~report_skipped)
        /\ \A j \in 1..Len(dropped) :
             Outcome(dropped[j]) = IMPORT_TYPE_SKIP /\ ~report_skipped
        /\ Len(result.rows) + Len(dropped) = nrows

\* C9 as stated: a row that matched an existing object, was processed
\* without raising and is recorded has outcome UPDATE or DELETE.
C9_MatchedIsUpdateOrDelete ==
    (/\ Snapshotted /\ original.pk # 0 /\ row_result.errors = 0
     /\ Recorded(row_result, report_skipped)) =>
        row_result.import_type \in {IMPORT_TYPE_UPDATE, IMPORT_TYPE_DELETE}

\* C9 amended: a row that matched an existing object is never NEW: its
\* outcome is DELETE when it is marked for deletion, SKIP when skip_unchanged
\* is on and field application changed nothing, and UPDATE otherwise.
C9_MatchedIsNeverNew ==
    (Snapshotted /\ original.pk # 0) =>
        /\ row_result.import_type # IMPORT_TYPE_NEW
        /\ ~row_result.new_record
        /\ row_result.import_type =
             IF row.del /\ row.fault # "for_delete" THEN IMPORT_TYPE_DELETE
             ELSE IF skip_unchanged /\ RowUnchanged /\ SkipChecked
                  THEN IMPORT_TYPE_SKIP
                  ELSE IMPORT_TYPE_UPDATE

\* C9 witness: a row that matched an existing object was skipped as unchanged.
C9_Witness ==
    /\ Snapshotted
    /\ original.pk # 0
    /\ row_result.errors = 0
    /\ row_result.import_type = IMPORT_TYPE_SKIP

\* C10 as stated: a row with no matching object that is not marked for
\* deletion, was processed without raising and is recorded has outcome NEW.
C10_UnmatchedIsNew ==
    (/\ Snapshotted /\ original.pk = 0 /\ ~row.del /\ row_result.errors = 0
     /\ Recorded(row_result, report_skipped)) =>
        row_result.import_type = IMPORT_TYPE_NEW

\* C10 amended: a row with no matching object that is not marked for deletion
\* has outcome NEW, except that it is SKIP when skip_unchanged is on and field
\* application left the fresh instance equal to its snapshot.
C10_UnmatchedIsNewUnlessUnchanged ==
    (Snapshotted /\ original.pk = 0 /\ ~row.del) =>
        /\ row_result.new_record
        /\ row_result.import_type =
             IF skip_unchanged /\ RowUnchanged /\ SkipChecked
             THEN IMPORT_TYPE_SKIP
             ELSE IMPORT_TYPE_NEW

\* C10 witness: a row with an empty id cell and no name column was skipped
\* as unchanged although no object matched it.
C10_Witness ==
    /\ Snapshotted
    /\ original.pk = 0
    /\ ~row.del
    /\ row_result.errors = 0
    /\ row_result.import_type = IMPORT_TYPE_SKIP

\* The rows of the dataset carry identification cells that are not empty and
\* differ from one row to the next.
KeyedDataset ==
    /\ \A i \in 1..Len(dataset) : dataset[i].id # 0
    /\ \A i, j \in 1..Len(dataset) : dataset[i].id = dataset[j].id => i = j
\* The second call on the dataset is running or has returned.
SecondRun == previous # <<>>
\* Every row the second call has processed is SKIP, and once it has
\* returned the store is as the first call left it.
SecondRunSkipsAll ==
    /\ RowDone => row_result.import_type = IMPORT_TYPE_SKIP
                    /\ row_result.errors = 0
    /\ \A i \in 1..Len(result.rows) :
          result.rows[i].import_type = IMPORT_TYPE_SKIP
    /\ \A i \in 1..Len(dropped) :
          dropped[i].import_type = IMPORT_TYPE_SKIP
    /\ pc = "returned" => /\ store = previous[1].store
                         /\ committed = previous[1].store

NoRowRaised == previous[1].nraised = 0 /\ nraised = 0
\* The first call entered transaction management and rolled back.
FirstRunRolledBack ==
    /\ Count(previous[1].calls, "enter") > 0
    /\ Count(previous[1].calls, "rollback") > 0

Called == {ops[i] : i \in 1..Len(ops)}
SaveCalls == {"before_save", "save", "after_save", "save_m2m"}

\* C12: with skip_unchanged enabled, a row not marked for deletion whose
\* instance after field application equals its snapshot on every field is
\* SKIP and makes none of before-save hook, save, after-save hook and
\* many-to-many pass; with skip_unchanged disabled the unchanged-row check
\* skips no row.
C12_UnchangedRowSkipped ==
    Snapshotted /\ SkipChecked =>
        /\ skip_unchanged /\ RowUnchanged /\ instance = original =>
              /\ row_result.import_type = IMPORT_TYPE_SKIP
              /\ Called \cap SaveCalls = {}
        /\ ~skip_unchanged =>
              /\ row_result.import_type # IMPORT_TYPE_SKIP
              /\ "before_save" \in Called

\* The second row names the object the first row renamed, with the same
\* name and other members of the relation, and is skipped.
C12_Witness ==
    /\ Snapshotted /\ SkipChecked /\ skip_unchanged /\ RowUnchanged
    /\ nrows = 2 /\ original = [pk |-> 1, name |-> "a"] /\ instance = original
    /\ row.name = "a" /\ row.tags # <<>>
    /\ row_result.import_type = IMPORT_TYPE_SKIP /\ row_result.errors = 0
    /\ ops = <<"resolve", "snapshot", "for_delete", "import_obj", "skip_row",
               "diff">>

\* The store calls of a row are really made: always when transaction
\* management was entered, else when the call is not a dry run.
Executes == IF use_transactions = UT_True THEN TRUE ELSE ~dry_run

\* C14: when transaction management is entered the per-row operations get
\* the dry flag false whatever dry_run is, so that save, delete and the
\* many-to-many pass are executed; otherwise the per-row dry flag is
\* dry_run.
C14_PerRowDryFlag ==
    /\ pc # "start" => real_dry_run = ~Executes
    /\ RowDone /\ row_result.errors = 0 =>
          /\ row_result.import_type \in {IMPORT_TYPE_NEW, IMPORT_TYPE_UPDATE}
                => /\ "save" \in Called <=> Executes
                   /\ "save_m2m" \in Called <=> Executes
          /\ row_result.import_type = IMPORT_TYPE_DELETE
                => ("delete" \in Called <=> Executes)

\* A dry run under transaction management: the first row was saved with its
\* relation, the second deleted an object, and the store shows it.
C14_Witness ==
    /\ dry_run /\ use_transactions = UT_True /\ managed = 1 /\ pc = "rows"
    /\ nrows = 2 /\ RowDone /\ row_result.errors = 0
    /\ row_result.import_type = IMPORT_TYPE_DELETE /\ "delete" \in Called
    /\ 1 \notin DOMAIN store /\ DOMAIN store # {}
    /\ \E k \in DOMAIN store : store[k].tags = {2}
    /\ committed = InitStore

\* The rows so far that carry an Error.
RowErrors ==
    Cardinality({i \in 1..Len(result.rows) : result.rows[i].errors > 0})
      + Cardinality({i \in 1..Len(dropped) : dropped[i].errors > 0})

\* The before-import hook raised: either the except clause recorded it, or
\* line 422 raised in its turn and the TypeError left import_data.
BeforeImportFailed ==
    result.base_errors > 0 \/ exc = "TypeError"

\* C15: a failure of the before-import hook is one base error and no row
\* error; with raise_errors it ends import_data before any row, an entered
\* transaction rolled back and left; without raise_errors the rows are
\* processed and an entered transaction is rolled back at the end.
C15_BeforeImportFailure ==
    /\ result.base_errors <= 1
    /\ RowErrors <= nraised
    /\ BeforeImportFailed =>
          /\ result.base_errors = 1
          /\ Count(calls, "before_import") = 1
          /\ nrows = 0 => result.rows = <<>> /\ dropped = <<>> /\ nraised = 0
          /\ raise_errors =>
                /\ pc = "raised" /\ nrows = 0 /\ ~RowDone
                /\ store = InitStore /\ committed = InitStore
                /\ use_transactions = UT_True =>
                      /\ exc = "before_import" /\ managed = 0
                      /\ LastTwo(calls) = <<"rollback", "leave">>
          /\ ~raise_errors =>
                /\ pc \in {"rows", "returned", "raised"}
                /\ pc = "rows" => calls[Len(calls) - nrows] = "before_import"
                /\ use_transactions = UT_True =>
                      /\ pc # "raised"
                      /\ pc = "rows" => managed = 1 /\ committed = InitStore
                      /\ pc = "returned" =>
                            /\ LastTwo(calls) = <<"rollback", "leave">>
                            /\ Count(calls, "commit") = 0
                            /\ managed = 0
                            /\ store = InitStore /\ committed = InitStore

\* C16: a row marked for deletion that resolves to no object is SKIP and
\* deletes nothing; one that resolves to an object is DELETE, with the
\* before- and after-delete hooks and, unless the per-row dry flag is set,
\* exactly one delete; on both paths no field is applied, the unchanged-row
\* check is not made and neither save nor many-to-many pass is called.
C16_DeletionPath ==
    Snapshotted /\ row.del /\ row.fault # "for_delete" =>
        /\ Called \cap ({"import_obj", "skip_row"} \cup SaveCalls) = {}
        /\ instance = original
        /\ IF row_result.new_record
           THEN /\ row_result.import_type = IMPORT_TYPE_SKIP
                /\ Called \cap {"before_delete", "delete", "after_delete"} = {}
           ELSE /\ row_result.import_type = IMPORT_TYPE_DELETE
                /\ Count(ops, "before_delete") = 1
                /\ Count(ops, "delete") = IF real_dry_run THEN 0 ELSE 1
                /\ row_result.errors = 0 \/ row.fault = "diff"
                      => Count(ops, "after_delete") = 1
                /\ ~real_dry_run /\ pc = "rows" /\ row.fault # "delete"
                      => original.pk \notin DOMAIN store

\* One row deleted object 1 for real; the next, marked for deletion too,
\* finds no object and is skipped.
C16_Witness ==
    /\ Snapshotted /\ row.del /\ row.id = 1 /\ nrows = 2
    /\ row_result.new_record /\ row_result.import_type = IMPORT_TYPE_SKIP
    /\ row_result.errors = 0
    /\ 1 \notin DOMAIN store
    /\ ~real_dry_run /\ pc = "rows"

\* C13: the transaction usage of a call is the explicit argument when it is
\* not None, else the Options setting when it is not None, else the
\* process-wide default; an explicit False wins over a True setting or
\* default (no transaction is entered) and an explicit True over a False one.
C13_EffectiveUseTransactions ==
    resolving # <<>> =>
        LET arg == resolving[1]
            meta == resolving[2]
            default == resolving[3]
        IN /\ use_transactions =
                 IF arg # UT_None THEN arg
                 ELSE IF meta # UT_None THEN meta ELSE default
           /\ arg = UT_False => use_transactions = UT_False /\ managed = 0
           /\ arg = UT_True => use_transactions = UT_True /\ managed = 1
           /\ arg = UT_None /\ meta = UT_False =>
                 use_transactions = UT_False /\ managed = 0

\* No argument, an Options setting of False and a process-wide default of
\* True: the setting wins and no transaction is entered.
C13_Witness ==
    /\ resolving = <<UT_None, UT_False, UT_True>>
    /\ pc = "loader" /\ use_transactions = UT_False /\ managed = 0
    /\ calls = <<>>

\* The calls of a row that is saved, in the order of lines 433-470.
PersistOrder(dry) ==
    <<"resolve", "snapshot", "for_delete", "import_obj", "skip_row",
      "before_save">>
      \o (IF dry THEN <<>> ELSE <<"save">>)
      \o <<"after_save">>
      \o (IF dry THEN <<>> ELSE <<"save_m2m">>)
      \o <<"diff">>
\* Where a call stands among the calls of the current row (0: not made).
Position(x) == IF x \in Called THEN CHOOSE i \in 1..Len(ops) : ops[i] = x ELSE 0

\* C17: a row that is neither deleted nor skipped applies its fields that
\* are not many-to-many, then calls the before-save hook, the save (not
\* under the per-row dry flag), the after-save hook, the many-to-many pass
\* (not under the per-row dry flag) and the diff, in that order; the
\* relation is written after the save and never under the dry flag.
C17_PersistOrdering ==
    /\ RowDone /\ row_result.errors = 0
         /\ row_result.import_type \in {IMPORT_TYPE_NEW, IMPORT_TYPE_UPDATE}
         => /\ ops = PersistOrder(real_dry_run)
            /\ ~real_dry_run /\ row.tags # <<>> /\ pc = "rows"
                 => /\ instance.pk \in DOMAIN store
                    /\ store[instance.pk].tags = row.tags[1]
                    /\ store[instance.pk].name = instance.name
            /\ real_dry_run /\ row_result.new_record
                 => \A k \in DOMAIN store : store[k].tags # {2}
    /\ RowDone /\ "save_m2m" \in Called
         => ~real_dry_run /\ 0 < Position("save")
                         /\ Position("save") < Position("after_save")
                         /\ Position("after_save") < Position("save_m2m")

\* A new object was saved and then given its relation.
C17_Witness ==
    /\ RowDone /\ row_result.errors = 0 /\ ~real_dry_run /\ pc = "rows"
    /\ row_result.import_type = IMPORT_TYPE_NEW
    /\ row.id = 0 /\ row.name = "a" /\ row.tags = <<{2}>>
    /\ ops = PersistOrder(FALSE)
    /\ instance.pk \in DOMAIN store /\ instance.pk # 1
    /\ store[instance.pk] = [name |-> "a", tags |-> {2}]

\* One row, not marked for deletion, went through field application.
FieldsApplied ==
    /\ nrows' = nrows + 1
    /\ ~row'.del
    /\ row'.fault \notin {"resolve", "snapshot", "for_delete", "import_obj"}

\* C18: field application assigns an attribute only when the column of its
\* field is in the row; for a column that is not, the attribute after field
\* application, and after the save, is the one of the snapshot.
C18_AbsentColumnKeepsAttribute ==
    [][FieldsApplied =>
        /\ instance'.name = IF row'.name = Absent THEN original'.name
                             ELSE row'.name
        /\ row'.name = Absent /\ pc' = "rows"
              /\ instance'.pk \in DOMAIN store'
              => store'[instance'.pk].name = original'.name
        /\ row'.tags = <<>> /\ pc' = "rows"
              => Related(store', instance'.pk) = Related(store, original'.pk)
      ]_vars

\* The second row names object 1 and has neither name nor relation column:
\* the object is saved with the name the first row gave it.
C18_Witness ==
    /\ RowDone /\ nrows = 2 /\ row_result.errors = 0 /\ pc = "rows"
    /\ row = [id |-> 1, name |-> Absent, tags |-> <<>>, del |-> FALSE,
              fault |-> NoFault]
    /\ original = [pk |-> 1, name |-> "a"] /\ instance = original
    /\ row_result.import_type = IMPORT_TYPE_UPDATE /\ "save" \in Called
    /\ store[1].name = "a"

\* One side of a diff entry: the exported value of obj read in store st.
DiffSide(field, obj, st) ==
    IF obj = NoObject THEN <<>> ELSE <<get_value(field, obj, st)>>

\* C19: for every row that completes without error the snapshot is the
\* instance as resolved, before any mutation; the diff has one entry per
\* field in column order, each made of the exported value the snapshot had
\* and of the exported value of the instance after the row, with the empty
\* value for the side a deletion path leaves out.
C19_DiffComparesSnapshot ==
    [][nrows' = nrows + 1 /\ row_result'.errors = 0 =>
        LET left == IF row'.del /\ row_result'.new_record THEN NoObject
                    ELSE original'
            right == IF row'.del THEN NoObject ELSE instance'
        IN /\ original' = get_or_init_instance(store, row')[1]
           /\ Len(row_result'.diff) = Len(get_fields)
           /\ \A i \in 1..Len(get_fields) :
                 row_result'.diff[i] =
                   [original |-> DiffSide(get_fields[i], left, store),
                    current |-> DiffSide(get_fields[i], right, store')]
      ]_vars

\* C20: with skip_unchanged a row that differs from its object in a
\* many-to-many column only is SKIP, and a SKIP row writes nothing to the
\* store: no save, no delete, no many-to-many pass.
C20_SkipWritesNothing ==
    [][nrows' = nrows + 1 =>
        /\ row_result'.import_type = IMPORT_TYPE_SKIP =>
              /\ Called' \cap {"save", "delete", "save_m2m"} = {}
              /\ pc' = "rows" => store' = store /\ committed' = committed
        /\ skip_unchanged /\ ~row'.del /\ row'.fault = NoFault
              /\ row'.id = original'.pk
              /\ row'.name \in {Absent, original'.name}
              => /\ row_result'.import_type = IMPORT_TYPE_SKIP
                 /\ store' = store
      ]_vars

\* A row that names object 1 with other members of its relation and
\* nothing else is skipped; the store is as it was.
C20_Witness ==
    /\ RowDone /\ nrows = 1 /\ skip_unchanged /\ ~real_dry_run /\ pc = "rows"
    /\ row = [id |-> 1, name |-> Absent, tags |-> <<{2}>>, del |-> FALSE,
              fault |-> NoFault]
    /\ row_result.import_type = IMPORT_TYPE_SKIP /\ row_result.errors = 0
    /\ Related(store, 1) = {1} /\ store = InitStore /\ committed = InitStore

\* Transaction management was entered in this call.
Entered == Count(calls, "enter") > 0
\* The commits, rollbacks and leaves of this call.
ExitCallsMade ==
    Count(calls, "commit") + Count(calls, "rollback") + Count(calls, "leave")

\* C23: whatever value the transaction usage resolves to, commit, rollback
\* and leave are called only in a call that entered transaction management,
\* and the per-row dry flag is forced to false exactly when it was entered.
C23_EnterAndExitGuardsAgree ==
    /\ ExitCallsMade > 0 => Entered
    /\ pc # "start" => real_dry_run = (IF Entered THEN FALSE ELSE dry_run)

\* The current row raised, and instance.save() had not returned.
RaisedBeforeSave ==
    /\ row_result.errors = 1 /\ ~row.del
    /\ "save" \notin Called \/ row.fault = "save"
\* The current row raised after instance.save() had returned.
RaisedAfterSave ==
    /\ row_result.errors = 1 /\ ~row.del
    /\ "save" \in Called /\ row.fault # "save"

\* C24: without transactions and without dry run, a row that raises before
\* its save leaves the store as it was; a row that raises after its save
\* (after-save hook, many-to-many pass, diff) carries an error, is appended
\* unless the error is re-raised, and its saved object stays in the store;
\* the objects of earlier rows are untouched; and the object info is set
\* only on a row, neither skipped nor deleted, whose save and many-to-many
\* pass both returned.
C24_PartialRowPersistence ==
    [][nrows' = nrows + 1 /\ use_transactions = UT_False /\ ~dry_run =>
        /\ RaisedBeforeSave' => store' = store /\ committed' = store
        /\ row_result'.errors = 1 /\ ~row'.del
              /\ row'.fault \in {"after_save", "save_m2m", "diff"}
              /\ row_result'.import_type # IMPORT_TYPE_SKIP
              => RaisedAfterSave'
        /\ RaisedAfterSave' =>
              /\ row_result'.import_type
                    \in {IMPORT_TYPE_NEW, IMPORT_TYPE_UPDATE}
              /\ instance'.pk \in DOMAIN store'
              /\ store'[instance'.pk].name = instance'.name
              /\ committed' = store'
              /\ \A k \in DOMAIN store \ {instance'.pk} :
                    k \in DOMAIN store' /\ store'[k] = store[k]
              /\ ~raise_errors =>
                    /\ Len(result'.rows) = Len(result.rows) + 1
                    /\ result'.rows[Len(result'.rows)].errors = 1
                    /\ result'.rows[Len(result'.rows)].line = nrows'
        /\ row_result'.object_id # 0 <=>
              /\ ~row'.del
              /\ row_result'.import_type
                    \in {IMPORT_TYPE_NEW, IMPORT_TYPE_UPDATE}
              /\ "save" \in Called' /\ "save_m2m" \in Called'
              /\ "diff" \in Called'
      ]_vars

\* The first row created an object; the second created another and raised
\* in its after-save hook: both objects are in the store, and the second
\* row has an error and no object info.
C24_Witness ==
    /\ use_transactions = UT_False /\ ~dry_run /\ ~raise_errors
    /\ pc = "rows" /\ nrows = 2 /\ RaisedAfterSave
    /\ row.fault = "after_save" /\ row.id = 0
    /\ row_result.import_type = IMPORT_TYPE_NEW /\ row_result.object_id = 0
    /\ Cardinality(DOMAIN store) = 3
    /\ instance.pk \in DOMAIN store /\ store[instance.pk].name = "a"
    /\ Len(result.rows) = 2 /\ result.rows[1].errors = 0
    /\ result.rows[2].errors = 1

\* The places of the mapping that hold a field of the name and origin.
Entries(name, origin) ==
    {i \in 1..Len(fields) :
        fields[i].name = name /\ fields[i].origin = origin}
ModelFieldSet ==
    {ModelFieldNames(opts.model)[i] : i \in 1..Len(ModelFieldNames(opts.model))}
Whitelisted(name) == opts.fields = Unset \/ name \in opts.fields[1]
Blacklisted(name) == opts.exclude # Unset /\ name \in opts.exclude[1]
\* The class statement has ended, with a class or with an exception.
ClassEnded == pc \in {"class_done", "class_raised"}
\* The name is listed in the fields option, contains '__' and is not the
\* name of a declared field or of a field of the model.
ListedRelation(name) ==
    /\ opts.fields # Unset /\ name \in opts.fields[1]
    /\ field_name_follows_rel(name)
    /\ name \notin Names(attrs)
\* What following the name from the model of the options comes to: name is
\* a field of every model and no relation; tags leads to Tag, which has a
\* name; owner is a field of BookWithOwner alone and leads to Owner, which
\* has a name and the reverse relation bookwithowner.
Resolution(name) ==
    CASE name = "name__x" -> "AttributeError"
      [] name = "tags__name" -> "none"
      [] name \in {"owner__name", "owner__bookwithowner"} ->
            IF opts.model = "BookWithOwner" THEN "none"
            ELSE "FieldDoesNotExist"
      [] OTHER -> "none"
Resolves(name) == Resolution(name) = "none"
\* No name is twice in the mapping; a declared field is in it as declared;
\* a field of the model is in it by introspection exactly when it is
\* whitelisted (or there is no whitelist), not blacklisted and not declared.
SelectedFields ==
    /\ \A i, j \in 1..Len(fields) :
          fields[i].name = fields[j].name => i = j
    /\ \A name \in Names(attrs) :
          \E i \in 1..Len(fields) : fields[i] = DeclaredField(name)
    /\ \A i \in 1..Len(fields) :
          fields[i].origin = "declared" => fields[i].name \in Names(attrs)
    /\ opts.model # NoModelClass =>
          \A name \in ModelFieldSet :
             Entries(name, "model") # {}
               <=> /\ Whitelisted(name)
                   /\ ~Blacklisted(name)
                   /\ name \notin Names(attrs)
    /\ opts.model = NoModelClass =>
          \A i \in 1..Len(fields) : fields[i].origin = "declared"

\* C22 as stated: the class statement makes a class whose mapping has the
\* declared fields as declared, the fields of the model that are whitelisted
\* (or there is no whitelist), not blacklisted and not declared, and one
\* field for every whitelisted name that contains '__' and is not already
\* present; no name is in the mapping twice.
C22_FieldSelection ==
    ClassEnded =>
        /\ pc = "class_done"
        /\ SelectedFields
        /\ opts.model # NoModelClass =>
              \A name \in WhitelistNames :
                 Cardinality(Entries(name, "relation")) =
                    IF ListedRelation(name) THEN 1 ELSE 0

\* C22 amended: as stated, but a whitelisted name that contains '__' and is
\* not already present adds its field when it resolves through the
\* relations of the model to a field.  When such a name does not resolve no
\* class is made: the class statement raises the exception of one such
\* name, FieldDoesNotExist when a part of it is no field of the model it is
\* looked up on, AttributeError when a part before the last is a field that
\* is no forward relation.
C22_FieldSelectionResolved ==
    ClassEnded =>
        /\ pc = "class_raised"
              <=> /\ opts.model # NoModelClass
                  /\ \E name \in WhitelistNames :
                        ListedRelation(name) /\ ~Resolves(name)
        /\ pc = "class_raised" =>
              \E name \in WhitelistNames :
                 /\ ListedRelation(name) /\ ~Resolves(name)
                 /\ exc = Resolution(name)
        /\ pc = "class_done" =>
              /\ exc = "none"
              /\ SelectedFields
              /\ opts.model # NoModelClass =>
                    \A name \in WhitelistNames :
                       Cardinality(Entries(name, "relation")) =
                          IF ListedRelation(name) /\ Resolves(name)
                          THEN 1 ELSE 0

\* A class on the model that has the owner relation declares name and full,
\* whitelists id, name and two relationship names, and blacklists id and
\* name: the mapping has the two declared fields and the two relationship
\* fields, one of them reached through a reverse relation, and no field of
\* the model.
C22_Witness ==
    /\ pc = "class_done" /\ opts.model = "BookWithOwner"
    /\ attrs = <<"name", "full">>
    /\ opts.fields = <<{"id", "name", RelName, "owner__bookwithowner"}>>
    /\ opts.exclude = <<{"id", "name"}>>
    /\ Len(fields) = 4
    /\ fields[3] = [name |-> RelName, column_name |-> RelName,
                    origin |-> "relation"]
    /\ fields[4] = parse_field("owner__bookwithowner", "relation")
    /\ \E i \in 1..2 : fields[i] = DeclaredField("name")
    /\ \E i \in 1..2 : fields[i] = DeclaredField("full")

\* The names of the fields in the order of their declaration: the Field
\* attributes as the class body writes them, then the fields of the model
\* that the body does not declare, as the model declares them.
DeclarationOrder ==
    attrs \o SelectSeq(ModelFieldNames(opts.model),
                       LAMBDA name : name \notin Names(attrs))
\* The keys in the order the columns are exported in: the column_order
\* option when it is set, else the order of declaration.
ExpectedOrder ==
    IF opts.column_order # <<>> THEN opts.column_order
    ELSE DeclarationOrder
\* The column_name of the field of that key.
ExpectedHeader(name) ==
    LET fs == {fields[i] : i \in 1..Len(fields)}
    IN (CHOOSE f \in fs : f.name = name).column_name
\* The exported value of the field of that key for the object pk.
ExpectedCell(name, pk) ==
    LET obj == [pk |-> pk, name |-> store[pk].name]
    IN IF name \in dehydrate THEN Dehydrated(name, obj, store)
       ELSE CASE name = "id" -> pk
              [] name = "name" -> store[pk].name
              [] name = "tags" -> store[pk].tags

\* C21: for every iterable of objects export returns a dataset; its headers
\* are the column names of the fields in column order (column_order when
\* set, else the order of declaration) and it has one row per object, in
\* iteration order, whose i-th cell is the value of the i-th field, from
\* dehydrate_<field> when the resource has one and from the field's export
\* otherwise; export changes neither the store nor the objects.
C21_Export ==
    /\ pc # "export_raised"
    /\ pc \in {"export_rows", "exported"} =>
          /\ Len(exported.headers) = Len(ExpectedOrder)
          /\ \A i \in 1..Len(ExpectedOrder) :
                exported.headers[i] = ExpectedHeader(ExpectedOrder[i])
          /\ Len(exported.rows) <= Len(Iterated)
          /\ \A j \in 1..Len(exported.rows) :
                /\ Len(exported.rows[j]) = Len(ExpectedOrder)
                /\ \A i \in 1..Len(ExpectedOrder) :
                      exported.rows[j][i]
                        = ExpectedCell(ExpectedOrder[i], Iterated[j])
          /\ pc = "exported" =>
                /\ Len(exported.rows) = Len(Iterated)
                /\ queryset = <<>> => Len(exported.rows) = MaxObjects
                /\ queryset # <<>> => Iterated = queryset[2]
          /\ store = ExportStore /\ committed = ExportStore

====
